---- MODULE Spec2Model ----
(***************************************************************************)
(* Model of build.py: the static-site builder that pages through the       *)
(* dataset rows API, writes one HTML file per page, then an index and an   *)
(* optional sitemap.                                                        *)
(*                                                                          *)
(* Strings are sequences of tokens (a token is a TLA+ string), so that      *)
(* endswith, concatenation, zero padding, escaping and urljoin are          *)
(* computed, not assumed.  A page of rows is modelled by its length.        *)
(***************************************************************************)
EXTENDS Integers, Sequences, FiniteSets, TLC

\* ---------------------------------------------------------------- bounds
\* Largest page index the model fetches (the code has no ceiling).
MaxPages == 2
\* Largest number of rows one response carries.
MaxRows == 2
\* Largest --rows-per-page value.
MaxRowsPerPage == 2
\* Longest date string fed to ts_to_date (besides the named examples).
MaxLen == 3

VARIABLES
    base_url,       \* args.base_url, a token sequence (<<>> is the default "")
    rows_per_page,  \* args.rows_per_page
    api_left,       \* remote dataset: non-empty pages still to come (Endless: always one more)
    pc,             \* position in main: fetching / index / sitemap / exit / aborted
    page_idx,       \* main's page_idx
    offset,         \* main's offset
    pages_meta,     \* main's pages_meta: sequence of <<page_idx, count>>
    disk,           \* the output directory: file name -> content
    requested,      \* history: offsets passed to fetch_rows in this run
    fetched,        \* history: len(rows) of every fetch that returned in this run
    writes,         \* history: file names written in this run, in order
    error,          \* the exception that ended this run, "none" otherwise
    rerun,          \* FALSE in the first invocation, TRUE in a later one
    ts_like,        \* input of ts_to_date
    ts_done,        \* ts_to_date has returned
    ts_out          \* what ts_to_date returned

vars == << base_url, rows_per_page, api_left, pc, page_idx, offset, pages_meta,
           disk, requested, fetched, writes, error, rerun, ts_like, ts_done, ts_out >>

mainVars == << base_url, rows_per_page, api_left, pc, page_idx, offset, pages_meta,
               disk, requested, fetched, writes, error, rerun >>

dateVars == << ts_like, ts_done, ts_out >>

\* ------------------------------------------------------- string helpers
DigitChars == << "0", "1", "2", "3", "4", "5", "6", "7", "8", "9" >>

\* f"{n}" for n >= 0: the decimal digits of n.
RECURSIVE Digits(_)
Digits(n) == IF n < 10 THEN << DigitChars[n + 1] >>
             ELSE Append(Digits(n \div 10), DigitChars[(n % 10) + 1])

\* Left-pad s with "0" up to width w (never truncates).
RECURSIVE ZeroPad(_, _)
ZeroPad(s, w) == IF Len(s) >= w THEN s ELSE ZeroPad(<< "0" >> \o s, w)

\* f"{n:04d}"
Format04d(n) == IF n < 0 THEN << "-" >> \o ZeroPad(Digits(-n), 3)
                ELSE ZeroPad(Digits(n), 4)

\* f"{n:02d}" for n >= 0
Format02d(n) == ZeroPad(Digits(n), 2)

\* s.endswith(t) for a one-token t
EndsWith(s, t) == Len(s) > 0 /\ s[Len(s)] = t

\* html.escape of one token
EscapeToken(t) ==
    CASE t = "&" -> "&amp;"
      [] t = "<" -> "&lt;"
      [] t = ">" -> "&gt;"
      [] t = "\"" -> "&quot;"
      [] t = "'" -> "&#x27;"
      [] OTHER -> t

\* html.escape(s)
HtmlEscape(s) == [i \in 1..Len(s) |-> EscapeToken(s[i])]

\* ------------------------------------------------------------ ts_to_date
IsDigit(c) == \E i \in 1..10 : DigitChars[i] = c

DigitValue(c) == (CHOOSE i \in 1..10 : DigitChars[i] = c) - 1

\* s.replace(",", "")
RECURSIVE StripCommas(_)
StripCommas(s) ==
    IF s = << >> THEN << >>
    ELSE IF Head(s) = "," THEN StripCommas(Tail(s))
    ELSE << Head(s) >> \o StripCommas(Tail(s))

\* value of a run of digits (0 for the empty run)
RECURSIVE DigitsValue(_)
DigitsValue(s) ==
    IF s = << >> THEN 0
    ELSE DigitsValue(SubSeq(s, 1, Len(s) - 1)) * 10 + DigitValue(s[Len(s)])

\* int(float(s)) for the decimal notation [sign] digits [. digits]: ok is
\* FALSE where float() raises ValueError, trunc is the value cut towards zero.
\* (Exponents, blanks, underscores, inf and nan are outside the alphabet used.)
ParseNumber(s) ==
    LET signed == Len(s) > 0 /\ s[1] \in {"-", "+"}
        body == IF signed THEN Tail(s) ELSE s
        dots == {i \in 1..Len(body) : body[i] = "."}
        wellFormed == /\ \A i \in 1..Len(body) : IsDigit(body[i]) \/ body[i] = "."
                      /\ Cardinality(dots) <= 1
                      /\ \E i \in 1..Len(body) : IsDigit(body[i])
        whole == IF dots = {} THEN body
                 ELSE SubSeq(body, 1, (CHOOSE i \in dots : TRUE) - 1)
    IN  IF ~wellFormed THEN [ok |-> FALSE, trunc |-> 0]
        ELSE [ok |-> TRUE,
              trunc |-> IF signed /\ s[1] = "-" THEN -DigitsValue(whole)
                        ELSE DigitsValue(whole)]

\* time.gmtime(num): the civil date of a Unix timestamp (proleptic Gregorian)
GmDate(num) ==
    LET days == num \div 86400
        z    == days + 719468
        era  == z \div 146097
        doe  == z - era * 146097
        yoe  == (doe - doe \div 1460 + doe \div 36524 - doe \div 146096) \div 365
        doy  == doe - (365 * yoe + yoe \div 4 - yoe \div 100)
        mp   == (5 * doy + 2) \div 153
        d    == doy - (153 * mp + 2) \div 5 + 1
        m    == IF mp < 10 THEN mp + 3 ELSE mp - 9
        y    == yoe + era * 400 + (IF m <= 2 THEN 1 ELSE 0)
    IN  [year |-> y, month |-> m, day |-> d]

\* time.strftime("%Y-%m-%d", t)
StrfDate(t) ==
    ZeroPad(Digits(t.year), 4) \o << "-" >> \o Format02d(t.month)
        \o << "-" >> \o Format02d(t.day)

\* str(ts_like) of a JSON string or a JSON integer
Str(ts) == IF ts.kind = "int" THEN (IF ts.v < 0 THEN << "-" >> \o Digits(-ts.v)
                                    ELSE Digits(ts.v))
           ELSE ts.s

\* ts_to_date(ts_like)
ts_to_date(ts) ==
    IF ts.kind = "none" THEN << >>
    ELSE LET s == StripCommas(Str(ts))
             num == ParseNumber(s)
         IN  IF num.ok THEN StrfDate(GmDate(num.trunc)) ELSE s

\* ------------------------------------------------------------ file names
IndexName == << "index.html" >>
SitemapName == << "sitemap.xml" >>

\* a page_filename that forgets the zero padding
page_filename_unpadded(page_idx_) == << "page-" >> \o Digits(page_idx_) \o << ".html" >>

\* page_filename(page_idx)
page_filename(page_idx_) == << "page-" >> \o Format04d(page_idx_) \o << ".html" >>

\* ------------------------------------------------------------ the disk
NoFiles == [n \in {} |-> 0]

\* open(out, "w").write(content): creates or overwrites exactly one file
WriteFile(d, name, content) ==
    [n \in (DOMAIN d) \cup {name} |-> IF n = name THEN content ELSE d[n]]

\* write_page(dirpath, page_idx, title, inner_html, dataset_url): the document
\* carries the page index in its title and one <article> per row.
write_page(d, page_idx_, title_idx, articles) ==
    WriteFile(d, page_filename(page_idx_),
              [kind |-> "page", title |-> title_idx, articles |-> articles])

NoPagesItem == [text |-> "No pages found.", href |-> << >>, idx |-> 0, count |-> 0]

\* the <li> elements write_index builds, one per manifest entry, in order
IndexLinks(pages) ==
    [i \in 1..Len(pages) |->
        [text |-> "Page", href |-> page_filename(pages[i][1]),
         idx |-> pages[i][1], count |-> pages[i][2]]]

\* an index body that leaves the list empty when there are no links
IndexBody_NoPlaceholder(links) == links

\* ''.join(links) if links else '<li>No pages found.</li>'
IndexBody(links) == IF Len(links) > 0 THEN links ELSE << NoPagesItem >>

\* write_index(dirpath, pages, title, dataset_url)
write_index(d, pages) ==
    WriteFile(d, IndexName, [kind |-> "index", items |-> IndexBody(IndexLinks(pages))])

\* urllib.parse.urljoin(u, p) for a base u = <<scheme://host, path tokens...,
\* optionally "?", query tokens...>> and a relative file name p: the base path
\* is cut after its last "/" (RFC 3986 merge) and the base query is dropped.
QueryPos(u) ==
    IF \E i \in 1..Len(u) : u[i] = "?"
    THEN CHOOSE i \in 1..Len(u) : u[i] = "?" /\ \A j \in 1..(i - 1) : u[j] # "?"
    ELSE Len(u) + 1

LastSlash(u) ==
    LET cand == {i \in 2..(QueryPos(u) - 1) : u[i] = "/"}
    IN  IF cand = {} THEN 0 ELSE CHOOSE i \in cand : \A j \in cand : j <= i

urljoin(u, p) ==
    IF LastSlash(u) = 0 THEN << u[1], "/" >> \o p
    ELSE SubSeq(u, 1, LastSlash(u)) \o p

\* a join that hands the base to urljoin as it is
join_NoSlash(u, p) == urljoin(u, p)

\* write_sitemap's inner join(u, p): ensure a trailing slash, then urljoin
join(u, p) == urljoin(IF ~EndsWith(u, "/") THEN Append(u, "/") ELSE u, p)

\* a url list that misses the last manifest entry
SitemapUrls_DropLast(base, pages) ==
    << join(base, IndexName) >> \o
    [i \in 1..(Len(pages) - 1) |-> join(base, page_filename(pages[i][1]))]

\* urls of write_sitemap: the index first, then every manifest page in order
SitemapUrls(base, pages) ==
    << join(base, IndexName) >> \o
    [i \in 1..Len(pages) |-> join(base, page_filename(pages[i][1]))]

\* write_sitemap(dirpath, base_url, pages): None (nothing written) without a base
write_sitemap(d, base, pages) ==
    IF base = << >> THEN d
    ELSE LET urls == SitemapUrls(base, pages)
         IN  WriteFile(d, SitemapName,
                       [kind |-> "sitemap",
                        locs |-> [i \in 1..Len(urls) |-> HtmlEscape(urls[i])]])

\* ------------------------------------------------------- the rows API
Endless == -1

\* What the remote end can answer to the next request: rows while it has
\* pages left, an empty page (or a body without "rows") afterwards, and at
\* any time a non-200 status or a body that is not JSON.
Responses ==
    {[status |-> 200, body |-> "rows", n |-> k] :
        k \in (IF api_left = 0 THEN {0} ELSE 1..MaxRows)}
    \cup (IF api_left = 0 THEN {[status |-> 200, body |-> "nokey", n |-> 0]} ELSE {})
    \cup {[status |-> 200, body |-> "malformed", n |-> 0],
          [status |-> 204, body |-> "rows", n |-> 0],
          [status |-> 500, body |-> "rows", n |-> 0]}

\* fetch_rows(...): the outcome for a response: an exception or len(rows)
fetch_rows(resp) ==
    IF resp.status >= 400 THEN [raised |-> "HTTPError", rows |-> 0]
    ELSE IF resp.status # 200 THEN [raised |-> "RuntimeError", rows |-> 0]
    ELSE IF resp.body = "malformed" THEN [raised |-> "JSONDecodeError", rows |-> 0]
    ELSE IF resp.body = "nokey" THEN [raised |-> "none", rows |-> 0]
    ELSE [raised |-> "none", rows |-> resp.n]

\* ------------------------------------------------------------ main
BaseUrls ==
    { << >>,
      << "https://x.io", "/", "site", "/" >>,
      << "https://x.io", "/", "site" >>,
      << "https://x.io", "/", "site", "?", "v=1" >> }

ApiSizes == (0..MaxPages) \cup {Endless}

\* argparse and the locals set before the loop
MainStart ==
    /\ base_url \in BaseUrls
    /\ rows_per_page \in 0..MaxRowsPerPage
    /\ api_left \in ApiSizes
    /\ pc = "fetching"
    /\ page_idx = 1
    /\ offset = 0
    /\ pages_meta = << >>
    /\ requested = << >>
    /\ fetched = << >>
    /\ writes = << >>
    /\ error = "none"

DateIdle ==
    /\ ts_like = [kind |-> "none", s |-> << >>, v |-> 0]
    /\ ts_done = FALSE
    /\ ts_out = << >>

Init ==
    /\ MainStart
    /\ disk = NoFiles
    /\ rerun = FALSE
    /\ DateIdle

\* a manifest entry that records the requested length, not the rows received
ManifestEntry_Requested(idx, nrows, rpp) == << idx, rpp >>

\* pages_meta.append((page_idx, len(rows)))
ManifestEntry(idx, nrows, rpp) == << idx, nrows >>

\* an offset that advances by the rows received
NextOffset_ByRows(off, nrows, rpp) == off + nrows

\* offset += args.rows_per_page
NextOffset(off, nrows, rpp) == off + rpp

\* a loop that takes a short page for the last one
AfterPage_StopOnShort(nrows, rpp) == IF nrows < rpp THEN "index" ELSE "fetching"

\* while True: after a non-empty page the loop goes round again
AfterPage(nrows, rpp) == "fetching"

\* One loop iteration with a non-empty page: fetch, render, write_page,
\* append to the manifest, advance page_idx and offset.
FetchPage ==
    /\ pc = "fetching"
    /\ page_idx <= MaxPages
    /\ \E resp \in Responses :
         LET r == fetch_rows(resp)
         IN  /\ r.raised = "none"
             /\ r.rows > 0
             /\ requested' = Append(requested, offset)
             /\ fetched' = Append(fetched, r.rows)
             /\ disk' = write_page(disk, page_idx, page_idx, r.rows)
             /\ writes' = Append(writes, page_filename(page_idx))
             /\ pages_meta' = Append(pages_meta, ManifestEntry(page_idx, r.rows, rows_per_page))
             /\ page_idx' = page_idx + 1
             /\ offset' = NextOffset(offset, r.rows, rows_per_page)
             /\ pc' = AfterPage(r.rows, rows_per_page)
             /\ api_left' = IF api_left = Endless THEN Endless ELSE api_left - 1
    /\ UNCHANGED << base_url, rows_per_page, error, rerun >>
    /\ UNCHANGED dateVars

\* The iteration whose fetch returns no rows: break out of the loop.
FetchEmpty ==
    /\ pc = "fetching"
    /\ \E resp \in Responses :
         LET r == fetch_rows(resp)
         IN  /\ r.raised = "none"
             /\ r.rows = 0
             /\ requested' = Append(requested, offset)
             /\ fetched' = Append(fetched, r.rows)
    /\ pc' = "index"
    /\ UNCHANGED << base_url, rows_per_page, api_left, page_idx, offset, pages_meta,
                    disk, writes, error, rerun >>
    /\ UNCHANGED dateVars

\* a loop that treats a failed fetch as the end of the data
FetchFail_AsEmpty ==
    /\ pc = "fetching"
    /\ \E resp \in Responses :
         LET r == fetch_rows(resp)
         IN  /\ r.raised # "none"
             /\ requested' = Append(requested, offset)
             /\ error' = r.raised
    /\ pc' = "index"
    /\ UNCHANGED << base_url, rows_per_page, api_left, page_idx, offset, pages_meta,
                    disk, fetched, writes, rerun >>
    /\ UNCHANGED dateVars

\* a loop that catches the error and goes on with the next page
FetchFail_SkipPage ==
    /\ pc = "fetching"
    /\ page_idx <= MaxPages
    /\ \E resp \in Responses :
         LET r == fetch_rows(resp)
         IN  /\ r.raised # "none"
             /\ requested' = Append(requested, offset)
             /\ error' = r.raised
    /\ page_idx' = page_idx + 1
    /\ offset' = offset + rows_per_page
    /\ UNCHANGED << base_url, rows_per_page, api_left, pc, pages_meta,
                    disk, fetched, writes, rerun >>
    /\ UNCHANGED dateVars

\* The iteration whose fetch raises: nothing catches it, the process ends.
FetchFail ==
    /\ pc = "fetching"
    /\ \E resp \in Responses :
         LET r == fetch_rows(resp)
         IN  /\ r.raised # "none"
             /\ requested' = Append(requested, offset)
             /\ error' = r.raised
    /\ pc' = "aborted"
    /\ UNCHANGED << base_url, rows_per_page, api_left, page_idx, offset, pages_meta,
                    disk, fetched, writes, rerun >>
    /\ UNCHANGED dateVars

\* After the loop: write_index(args.outdir, pages_meta, ...)
WriteIndex ==
    /\ pc = "index"
    /\ disk' = write_index(disk, pages_meta)
    /\ writes' = Append(writes, IndexName)
    /\ pc' = "sitemap"
    /\ UNCHANGED << base_url, rows_per_page, api_left, page_idx, offset, pages_meta,
                    requested, fetched, error, rerun >>
    /\ UNCHANGED dateVars

\* if args.base_url: write_sitemap(args.outdir, args.base_url, pages_meta)
WriteSitemap ==
    /\ pc = "sitemap"
    /\ base_url # << >>
    /\ disk' = write_sitemap(disk, base_url, pages_meta)
    /\ writes' = Append(writes, SitemapName)
    /\ pc' = "exit"
    /\ UNCHANGED << base_url, rows_per_page, api_left, page_idx, offset, pages_meta,
                    requested, fetched, error, rerun >>
    /\ UNCHANGED dateVars

\* no base URL: main goes straight to its final print
SkipSitemap ==
    /\ pc = "sitemap"
    /\ base_url = << >>
    /\ pc' = "exit"
    /\ UNCHANGED << base_url, rows_per_page, api_left, page_idx, offset, pages_meta,
                    disk, requested, fetched, writes, error, rerun >>
    /\ UNCHANGED dateVars

\* A later invocation against the same output directory: new arguments, the
\* locals start over, the files of the earlier run are still there.
Rerun ==
    /\ pc \in {"exit", "aborted"}
    /\ rerun = FALSE
    /\ rerun' = TRUE
    /\ base_url' \in BaseUrls
    /\ rows_per_page' \in 0..MaxRowsPerPage
    /\ api_left' \in ApiSizes
    /\ pc' = "fetching"
    /\ page_idx' = 1
    /\ offset' = 0
    /\ pages_meta' = << >>
    /\ requested' = << >>
    /\ fetched' = << >>
    /\ writes' = << >>
    /\ error' = "none"
    /\ UNCHANGED disk
    /\ UNCHANGED dateVars

\* ----------------------------------------------- ts_to_date on its own
TsChars == {"0", "1", ",", ".", "-", "u"}

RECURSIVE StringsUpTo(_)
StringsUpTo(n) ==
    IF n = 0 THEN {<< >>}
    ELSE LET shorter == StringsUpTo(n - 1)
         IN  shorter \cup {Append(s, c) : s \in shorter, c \in TsChars}

TsExamples ==
    { << "1", ",", "7", "0", "0", ",", "0", "0", "0", ",", "0", "0", "0" >>,
      << "1", "7", "0", "0", "0", "0", "0", "0", "0", "0" >>,
      << "u", "n", "k", "n", "o", "w", "n" >>,
      << "J", "a", "n", " ", "5", ",", " ", "2", "0", "2", "4" >> }

\* the values a row's "date" field is fed with: absent, a string, an integer
TsInputs ==
    {[kind |-> "none", s |-> << >>, v |-> 0]}
    \cup {[kind |-> "str", s |-> x, v |-> 0] : x \in StringsUpTo(MaxLen) \cup TsExamples}
    \cup {[kind |-> "int", s |-> << >>, v |-> n] : n \in {0, 86399, 86400, 1700000000}}

InitDate ==
    /\ base_url = << >>
    /\ rows_per_page = 1
    /\ api_left = 0
    /\ pc = "fetching"
    /\ page_idx = 1
    /\ offset = 0
    /\ pages_meta = << >>
    /\ requested = << >>
    /\ fetched = << >>
    /\ writes = << >>
    /\ error = "none"
    /\ disk = NoFiles
    /\ rerun = FALSE
    /\ ts_like \in TsInputs
    /\ ts_done = FALSE
    /\ ts_out = << >>

\* one call of ts_to_date (render_rows_to_html, once per row)
Normalize ==
    /\ ~ts_done
    /\ ts_out' = ts_to_date(ts_like)
    /\ ts_done' = TRUE
    /\ UNCHANGED ts_like
    /\ UNCHANGED mainVars

NextDate == Normalize

SpecDate == InitDate /\ [][NextDate]_vars

RunNext == FetchPage \/ FetchEmpty \/ FetchFail \/ WriteIndex \/ WriteSitemap \/ SkipSitemap

Next == RunNext \/ Rerun

Spec == Init /\ [][Next]_vars

\* One invocation, run to its end: the interpreter keeps executing main.
SpecLive == Init /\ [][RunNext]_vars /\ WF_vars(RunNext)

\* ------------------------------------------------ vocabulary of the claims
\* DONE: the fetch loop has ended by its break
LoopEnded == pc \in {"index", "sitemap", "exit"}

IsPageName(n) == Len(n) > 0 /\ n[1] = "page-"

\* the page files written in this run, in order
PageWrites == SelectSeq(writes, IsPageName)

\* positions at which a file name was written in this run
WritesOf(name) == {i \in 1..Len(writes) : writes[i] = name}

\* the non-empty fetches of this run came first and the last one was empty
EndedByEmptyPage ==
    /\ Len(fetched) >= 1
    /\ fetched[Len(fetched)] = 0
    /\ \A i \in 1..(Len(fetched) - 1) : fetched[i] > 0

\* the tokens of a URL after its last "/"
FilePart(u) ==
    LET slashes == {i \in 1..Len(u) : u[i] = "/"}
        last == IF slashes = {} THEN 0 ELSE CHOOSE i \in slashes : \A j \in slashes : j <= i
    IN  SubSeq(u, last + 1, Len(u))

\* =================================================================== C1
\* C1: a run whose first k fetches return rows and whose fetch k+1 returns
\* none performs exactly k+1 fetches, writes exactly the page files 1..k (one
\* per non-empty fetch, holding that fetch's rows), and the index it then
\* writes lists exactly (1, n1), ..., (k, nk) in order, ni being the number of
\* rows of the i-th fetch.
C1_PagesAndIndexFollowFetches ==
    EndedByEmptyPage =>
        LET k == Len(fetched) - 1
        IN  /\ LoopEnded
            /\ Len(requested) = k + 1
            /\ PageWrites = [i \in 1..k |-> page_filename(i)]
            /\ \A i \in 1..k : disk[page_filename(i)].articles = fetched[i]
            /\ pages_meta = [i \in 1..k |-> << i, fetched[i] >>]
            /\ (pc = "exit" => WritesOf(IndexName) # {})
            /\ (WritesOf(IndexName) # {} /\ k > 0 =>
                    /\ Len(disk[IndexName].items) = k
                    /\ \A i \in 1..k :
                          /\ disk[IndexName].items[i].idx = i
                          /\ disk[IndexName].items[i].count = fetched[i]
                          /\ disk[IndexName].items[i].href = page_filename(i))

C1_Witness ==
    /\ pc = "exit"
    /\ rows_per_page = 1
    /\ fetched = << 2, 1, 0 >>
    /\ Len(disk[IndexName].items) = 2

\* =================================================================== C2
\* C2: when the very first fetch returns no rows, no page file is written,
\* the run ends without an error, the index holds the single "No pages
\* found" placeholder and no page link, and the sitemap (with a base URL
\* configured) lists the index URL alone.
C2_EmptyFirstPage ==
    fetched = << 0 >> =>
        /\ LoopEnded
        /\ error = "none"
        /\ PageWrites = << >>
        /\ (pc = "exit" => WritesOf(IndexName) # {})
        /\ (WritesOf(IndexName) # {} =>
                /\ Len(disk[IndexName].items) = 1
                /\ disk[IndexName].items[1].text = "No pages found."
                /\ disk[IndexName].items[1].href = << >>)
        /\ (pc = "exit" /\ base_url # << >> =>
                /\ WritesOf(SitemapName) # {}
                /\ Len(disk[SitemapName].locs) = 1
                /\ FilePart(disk[SitemapName].locs[1]) = IndexName)

C2_Witness ==
    /\ pc = "exit"
    /\ fetched = << 0 >>
    /\ base_url # << >>
    /\ disk[IndexName].items[1].text = "No pages found."

\* =================================================================== C9
\* C9: at every fetch offset = (page_idx - 1) * rows_per_page and the manifest
\* is exactly the page indices 1..page_idx-1 in order, each with at least one
\* row; the offset advances by rows_per_page whatever the page held, so the
\* i-th offset requested is (i - 1) * rows_per_page, a multiple of
\* rows_per_page, and with rows_per_page > 0 no offset is requested twice.
C9_LoopInvariant ==
    /\ (pc = "fetching" =>
            /\ offset = (page_idx - 1) * rows_per_page
            /\ Len(requested) = page_idx - 1)
    /\ Len(pages_meta) = page_idx - 1
    /\ \A i \in 1..Len(pages_meta) : pages_meta[i][1] = i /\ pages_meta[i][2] >= 1
    /\ \A i \in 1..Len(requested) : requested[i] = (i - 1) * rows_per_page
    /\ (rows_per_page > 0 =>
            \A i, j \in 1..Len(requested) : i # j => requested[i] # requested[j])

C9_Witness ==
    /\ pc = "fetching"
    /\ page_idx = 3
    /\ rows_per_page = 2
    /\ fetched = << 1, 1 >>
    /\ offset = 4

\* =================================================================== C3
\* C3 as stated: a fetch failure takes the loop to DONE exactly as an empty
\* page does, so the index is still written after a failed fetch.
C3_FailureEndsInDone ==
    [][(error = "none" /\ error' # "none") => pc' = "index"]_vars

\* C3 as amended: from FETCHING only an empty page leads to DONE, and DONE is
\* followed by the Index Writer and then, with a base URL configured, by the
\* Sitemap Writer; a fetch failure ends the run instead, with neither an
\* index nor a sitemap written for the pages accumulated so far.
C3_OnlyEmptyPageEndsInDone ==
    /\ [][(pc = "fetching" /\ pc' # "fetching") =>
            \/ /\ pc' = "index"
               /\ error' = "none"
               /\ fetched' = Append(fetched, 0)
            \/ /\ pc' = "aborted"
               /\ error' # "none"
               /\ fetched' = fetched]_vars
    /\ [][(pc = "index" /\ pc' # "index") =>
            /\ pc' = "sitemap"
            /\ writes' = Append(writes, IndexName)]_vars
    /\ [][(pc = "sitemap" /\ pc' # "sitemap") =>
            /\ pc' = "exit"
            /\ writes' = IF base_url # << >> THEN Append(writes, SitemapName) ELSE writes]_vars
    /\ [](error # "none" =>
            /\ pc = "aborted"
            /\ WritesOf(IndexName) = {}
            /\ WritesOf(SitemapName) = {})

C3_Witness ==
    /\ pc = "aborted"
    /\ error = "RuntimeError"
    /\ Len(pages_meta) = 1
    /\ ~rerun
    /\ IndexName \notin DOMAIN disk

\* =================================================================== C4
\* C4: a fetch that raises at page k+1 (a non-200 status, a body that is not
\* JSON) ends the run at once, without a retry: the k page files already
\* written stay on disk as they are, no further fetch is issued, and neither
\* the index nor the sitemap is written in that run.
C4_FatalFetchAborts ==
    /\ [][(error = "none" /\ error' # "none") =>
            /\ pc = "fetching"
            /\ pc' = "aborted"
            /\ disk' = disk
            /\ writes' = writes
            /\ Len(requested') = Len(pages_meta) + 1]_vars
    /\ [][(pc = "aborted" /\ rerun' = rerun) =>
            /\ pc' = "aborted"
            /\ disk' = disk
            /\ requested' = requested
            /\ writes' = writes]_vars
    /\ [](pc = "aborted" =>
            LET k == Len(pages_meta)
            IN  /\ error \in {"HTTPError", "RuntimeError", "JSONDecodeError"}
                /\ Len(requested) = k + 1
                /\ writes = [i \in 1..k |-> page_filename(i)]
                /\ \A i \in 1..k :
                      disk[page_filename(i)] =
                          [kind |-> "page", title |-> i, articles |-> fetched[i]])

C4_Witness ==
    /\ pc = "aborted"
    /\ error = "JSONDecodeError"
    /\ Len(pages_meta) = 2
    /\ Len(requested) = 3
    /\ writes = << page_filename(1), page_filename(2) >>

\* =================================================================== C5
WithSlash(u) == IF u[Len(u)] = "/" THEN u ELSE u \o << "/" >>

HasQuery(u) == \E i \in 1..Len(u) : u[i] = "?"

\* C5: a sitemap is written if and only if a non-empty base URL is
\* configured.  Written for a manifest of n pages it holds exactly n+1
\* entries: the index document first, then one per manifest page in manifest
\* order, each the base URL (a trailing slash ensured) joined with index.html
\* or page-NNNN.html; for a base URL without a query that is the base, a "/"
\* if it lacks one, and the file name.
C5_SitemapEntries ==
    /\ (WritesOf(SitemapName) # {} => base_url # << >> /\ pc = "exit")
    /\ (pc = "exit" =>
            /\ (WritesOf(SitemapName) # {} <=> base_url # << >>)
            /\ (base_url # << >> =>
                    LET locs == disk[SitemapName].locs
                        n == Len(pages_meta)
                    IN  /\ Len(locs) = n + 1
                        /\ FilePart(locs[1]) = IndexName
                        /\ locs[1][1] = base_url[1]
                        /\ \A i \in 1..n :
                              /\ FilePart(locs[i + 1]) = page_filename(pages_meta[i][1])
                              /\ locs[i + 1][1] = base_url[1]
                        /\ (~HasQuery(base_url) =>
                               /\ locs[1] = WithSlash(base_url) \o IndexName
                               /\ \A i \in 1..n :
                                     locs[i + 1] = WithSlash(base_url)
                                                     \o page_filename(pages_meta[i][1]))))

C5_Witness ==
    /\ pc = "exit"
    /\ base_url = << "https://x.io", "/", "site" >>
    /\ Len(pages_meta) = 2
    /\ Len(disk[SitemapName].locs) = 3

\* =================================================================== C6
\* C6: an empty fetch result is the only way the loop ends without an error.
\* If the remote end runs out of rows and no fetch fails, the run reaches
\* DONE; if it has a row for every fetch, the run never reaches DONE and
\* every page fetched raises the page index by one; a page shorter than
\* rows_per_page does not end the loop.
C6_EmptyPageAloneEndsLoop ==
    /\ [](LoopEnded => EndedByEmptyPage)
    /\ [](api_left = Endless => ~LoopEnded)
    /\ [][(fetched' # fetched /\ fetched'[Len(fetched')] > 0) =>
            /\ pc' = "fetching"
            /\ page_idx' = page_idx + 1]_vars
    /\ ((api_left # Endless) => <>(LoopEnded \/ error # "none"))

C6_Witness ==
    /\ pc = "index"
    /\ rows_per_page = 2
    /\ fetched = << 1, 1, 0 >>
    /\ page_idx = 3

\* =================================================================== C8
SampleIndices == (1..(MaxPages + 1)) \cup {7, 9, 10, 99, 100, 999, 1000, 9999, 10000, 10007}

NameIsPadded(i) ==
    LET n == page_filename(i)
        digits == SubSeq(n, 2, Len(n) - 1)
    IN  /\ n[1] = "page-"
        /\ n[Len(n)] = ".html"
        /\ \A j \in 1..Len(digits) : IsDigit(digits[j])
        /\ DigitsValue(digits) = i
        /\ Len(digits) >= 4
        /\ (Len(digits) > 4 => digits[1] # "0")

\* C8: write_page targets page-NNNN.html, NNNN the page index zero-padded to
\* four digits (index 7 gives page-0007.html): the file depends on the index
\* alone, so writing an index again, in this run or a later one, overwrites
\* that one file and leaves every other file as it was, and two different
\* indices never target the same file.
C8_WritePageIdempotent ==
    /\ [](/\ (requested = << >> /\ ~rerun =>
                \* the name is a function of the index alone: looked at once,
                \* as an invocation starts
                /\ page_filename(7) = << "page-", "0", "0", "0", "7", ".html" >>
                /\ \A i \in SampleIndices : NameIsPadded(i)
                /\ \A i, j \in SampleIndices : i # j => page_filename(i) # page_filename(j))
          /\ \A i \in 1..MaxPages :
                page_filename(i) \in DOMAIN disk => disk[page_filename(i)].title = i)
    /\ [][\A i \in 1..MaxPages :
            (page_idx = i /\ page_idx' = i + 1) =>
                LET fn == << "page-" >> \o ZeroPad(Digits(i), 4) \o << ".html" >>
                IN  /\ DOMAIN disk' = (DOMAIN disk) \cup {fn}
                    /\ disk'[fn].title = i
                    /\ \A n \in (DOMAIN disk) \ {fn} : disk'[n] = disk[n]]_vars

C8_Witness ==
    /\ rerun
    /\ writes = << page_filename(1) >>
    /\ disk[page_filename(1)].articles = 1
    /\ page_filename(2) \in DOMAIN disk
    /\ IndexName \in DOMAIN disk

\* ================================================================== C10
IndexHrefs ==
    {disk[IndexName].items[i].href :
        i \in {j \in 1..Len(disk[IndexName].items) : disk[IndexName].items[j].idx > 0}}

SitemapPages ==
    {FilePart(disk[SitemapName].locs[i]) : i \in 2..Len(disk[SitemapName].locs)}

\* C10: within one run the index is written at most once and only after the
\* fetch loop has ended, the sitemap only after the index, and once the index
\* is written no page is written and the manifest does not change; so every
\* page the index (or the sitemap) of this run references was written
\* earlier in the same run, and index and sitemap reference the same pages.
C10_WriterOrder ==
    /\ [](/\ Cardinality(WritesOf(IndexName)) <= 1
          /\ Cardinality(WritesOf(SitemapName)) <= 1
          /\ (WritesOf(IndexName) # {} => LoopEnded /\ pc # "index")
          /\ \A s \in WritesOf(SitemapName) : \E x \in WritesOf(IndexName) : x < s
          /\ \A x \in WritesOf(IndexName) :
                /\ \A j \in 1..Len(writes) : IsPageName(writes[j]) => j < x
                /\ \A h \in IndexHrefs :
                      /\ h \in DOMAIN disk
                      /\ \E j \in 1..(x - 1) : writes[j] = h
          /\ (WritesOf(SitemapName) # {} => SitemapPages = IndexHrefs))
    /\ [][(WritesOf(IndexName) # {} /\ rerun' = rerun) =>
            /\ pages_meta' = pages_meta
            /\ SelectSeq(writes', IsPageName) = PageWrites
            /\ disk'[IndexName] = disk[IndexName]]_vars

C10_Witness ==
    /\ pc = "exit"
    /\ WritesOf(SitemapName) # {}
    /\ Len(pages_meta) = 2
    /\ Cardinality(IndexHrefs) = 2

\* =================================================================== C7
IsDateString(s) ==
    /\ Len(s) = 10
    /\ s[5] = "-" /\ s[8] = "-"
    /\ \A i \in {1, 2, 3, 4, 6, 7, 9, 10} : IsDigit(s[i])

IsGroupedNumber(ts) ==
    /\ ts.kind = "str"
    /\ \E i \in 1..Len(ts.s) : ts.s[i] = ","
    /\ \A i \in 1..Len(ts.s) : IsDigit(ts.s[i]) \/ ts.s[i] = ","
    /\ \E i \in 1..Len(ts.s) : IsDigit(ts.s[i])

IsNotANumber(ts) == ts.kind = "str" /\ ~ParseNumber(StripCommas(ts.s)).ok

\* C7: ts_to_date never raises; an input that is not a number comes back as
\* its original string, unchanged (text with commas included); a number
\* written with thousands separators comes back as a YYYY-MM-DD date.
C7_NormalizerContract ==
    ts_done =>
        /\ (IsNotANumber(ts_like) => ts_out = ts_like.s)
        /\ (IsGroupedNumber(ts_like) => IsDateString(ts_out))

====
